---------------------------- MODULE Spec2Model ----------------------------
(***************************************************************************)
(* TheMoroScanner (src/main.py): a chat bot that scans a message for       *)
(* Solana / EVM addresses and URLs (ADDRESS_PATTERNS, on_message), and for *)
(* each match resolves market data through a chain of HTTP sources         *)
(* (get_solana_token_data, get_evm_token_data).                            *)
(*                                                                         *)
(* Texts are sequences of one-character strings.  JSON scalars read from   *)
(* the upstream services are records [k |-> kind, v |-> integer].          *)
(***************************************************************************)
EXTENDS Integers, Sequences, FiniteSets, TLC

(***************************************************************************)
(* Character classes of ADDRESS_PATTERNS (main.py 29-33)                   *)
(***************************************************************************)
Digits19 == {"1", "2", "3", "4", "5", "6", "7", "8", "9"}

UpperHex == {"A", "B", "C", "D", "E", "F"}

LowerHex == {"a", "b", "c", "d", "e", "f"}

\* [1-9A-HJ-NP-Za-km-z]
Base58 ==
    Digits19
    \cup UpperHex \cup {"G", "H"}
    \cup {"J", "K", "L", "M", "N"}
    \cup {"P", "Q", "R", "S", "T", "U", "V", "W", "X", "Y", "Z"}
    \cup LowerHex \cup {"g", "h", "i", "j", "k"}
    \cup {"m", "n", "o", "p", "q", "r", "s", "t", "u", "v", "w", "x", "y", "z"}

\* [a-fA-F0-9]
HexChars == {"0"} \cup Digits19 \cup LowerHex \cup UpperHex

\* \s
Whitespace == {" ", "\t", "\n"}

SolanaMinLen == 32

SolanaMaxLen == 44

EvmHexLen == 40

Min(a, b) == IF a < b THEN a ELSE b

SetMin(S) == CHOOSE m \in S : \A n \in S : m <= n

\* number of consecutive characters of class cls starting at position i
RunLen(text, i, cls) ==
    LET stops == {j \in i..Len(text) : text[j] \notin cls}
    IN  IF i > Len(text) THEN 0
        ELSE IF stops = {} THEN Len(text) - i + 1
        ELSE SetMin(stops) - i

\* number of consecutive characters outside class cls starting at position i
RunLenNot(text, i, cls) ==
    LET stops == {j \in i..Len(text) : text[j] \in cls}
    IN  IF i > Len(text) THEN 0
        ELSE IF stops = {} THEN Len(text) - i + 1
        ELSE SetMin(stops) - i

HasPrefixAt(text, i, pre) ==
    /\ i + Len(pre) - 1 <= Len(text)
    /\ \A j \in 1..Len(pre) : text[i + j - 1] = pre[j]

\* length of the match of r"[1-9A-HJ-NP-Za-km-z]{32,44}" at position i, 0 if none
SolanaMatchLen(text, i) ==
    LET n == Min(RunLen(text, i, Base58), SolanaMaxLen)
    IN  IF n >= SolanaMinLen THEN n ELSE 0

\* length of the match of r"0x[a-fA-F0-9]{40}" at position i, 0 if none
EvmMatchLen(text, i) ==
    IF /\ HasPrefixAt(text, i, <<"0", "x">>)
       /\ RunLen(text, i + 2, HexChars) >= EvmHexLen
    THEN 2 + EvmHexLen ELSE 0

\* length of the match of r"http[s]?://[^\s]+" at position i, 0 if none
UrlMatchLen(text, i) ==
    LET http  == <<"h", "t", "t", "p">>
        sep   == <<":", "/", "/">>
        plain == HasPrefixAt(text, i, http \o sep)
        tls   == HasPrefixAt(text, i, http \o <<"s">> \o sep)
        head  == IF tls THEN 8 ELSE 7
        rest  == RunLenNot(text, i + head, Whitespace)
    IN  IF (plain \/ tls) /\ rest >= 1 THEN head + rest ELSE 0

PatternKeys == <<"solana", "evm", "url">>

\* ADDRESS_PATTERNS[key] matched at position i
MatchLen(key, text, i) ==
    CASE key = "solana" -> SolanaMatchLen(text, i)
      [] key = "evm"    -> EvmMatchLen(text, i)
      [] key = "url"    -> UrlMatchLen(text, i)

\* re.findall(pattern, text): leftmost, non-overlapping matches from position i
RECURSIVE FindAllFrom(_, _, _)
FindAllFrom(key, text, i) ==
    LET starts == {j \in i..Len(text) : MatchLen(key, text, j) > 0}
    IN  IF starts = {} THEN <<>>
        ELSE LET j == SetMin(starts)
                 n == MatchLen(key, text, j)
             IN  <<SubSeq(text, j, j + n - 1)>> \o FindAllFrom(key, text, j + n)

FindAll(key, text) == FindAllFrom(key, text, 1)

\* re.fullmatch(pattern, text)
FullMatch(key, text) ==
    /\ Len(text) > 0
    /\ CASE key = "solana" ->
              /\ Len(text) >= SolanaMinLen
              /\ Len(text) <= SolanaMaxLen
              /\ RunLen(text, 1, Base58) = Len(text)
         [] key = "evm" -> EvmMatchLen(text, 1) = Len(text)
         [] key = "url" -> UrlMatchLen(text, 1) = Len(text)

TypeSolana == "Solana"

TypeEvm == "EVM (Ethereum/BSC)"

TypeUrl == "URL"

TypeUnknown == "Unknown"

\* a classifier that knows no EVM pattern
detect_address_typeWithoutEvm(address) ==
    IF FullMatch("solana", address) THEN TypeSolana
    ELSE IF FullMatch("url", address) THEN TypeUrl
    ELSE TypeUnknown

detect_address_type(address) ==
    IF FullMatch("solana", address) THEN TypeSolana
    ELSE IF FullMatch("evm", address) THEN TypeEvm
    ELSE IF FullMatch("url", address) THEN TypeUrl
    ELSE TypeUnknown

\* str.strip()
Strip(text) ==
    LET keep == {j \in 1..Len(text) : text[j] \notin Whitespace}
    IN  IF keep = {} THEN <<>>
        ELSE SubSeq(text, SetMin(keep), CHOOSE m \in keep : \A n \in keep : n <= m)

\* str.lower() on the characters an address can hold
LowerChar(c) ==
    CASE c = "A" -> "a" [] c = "B" -> "b" [] c = "C" -> "c"
      [] c = "D" -> "d" [] c = "E" -> "e" [] c = "F" -> "f"
      [] OTHER -> c

Lower(text) == [i \in 1..Len(text) |-> LowerChar(text[i])]

(***************************************************************************)
(* JSON values as the resolvers read them                                  *)
(***************************************************************************)
\* a JSON number n
Num(n) == [k |-> "num", v |-> n]

\* a JSON string holding the decimal text of n, e.g. "12"
Str(n) == [k |-> "str", v |-> n]

\* a JSON string that is no number, e.g. "abc"
Bad == [k |-> "bad", v |-> 0]

\* the empty JSON string
Empty == [k |-> "empty", v |-> 0]

\* JSON null
Null == [k |-> "null", v |-> 0]

\* the key is absent from its object (or the enclosing object is absent)
Missing == [k |-> "missing", v |-> 0]

\* the enclosing object is null: x.get('outer', {}) is None, .get raises
NoObj == [k |-> "noobj", v |-> 0]

\* JSON text (names, symbols)
Text(s) == [k |-> "text", s |-> s]

NullText == [k |-> "null", s |-> ""]

MissingText == [k |-> "missing", s |-> ""]

NoObjText == [k |-> "noobj", s |-> ""]

\* Python's None where a str is expected
PyNone == "<None>"

UnknownName == "Unknown Token"

UnknownSymbol == "UNKNOWN"

\* Python truthiness of a JSON scalar
Truthy(j) ==
    CASE j.k = "num" -> j.v # 0
      [] j.k \in {"str", "bad"} -> TRUE
      [] OTHER -> FALSE

\* float(x) succeeds: x is a number or a numeric string
FloatOk(j) == j.k \in {"num", "str"}

\* d.get(key, 0): the default replaces an absent key only
GetOrZero(j) == IF j.k = "missing" THEN Num(0) ELSE j

\* d.get(key, 0) or 0
GetOrZeroOr(j) == IF Truthy(GetOrZero(j)) THEN GetOrZero(j) ELSE Num(0)

\* float(d.get(key, 0) or 0) does not raise
CoerceOk(j) == j.k # "noobj" /\ FloatOk(GetOrZeroOr(j))

\* float(d.get(key, 0) or 0)
Coerce(j) == GetOrZeroOr(j).v

\* float(d.get(key, 0)) does not raise
CoerceNoOrOk(j) == j.k # "noobj" /\ FloatOk(GetOrZero(j))

\* float(d.get(key, 0))
CoerceNoOr(j) == GetOrZero(j).v

\* d.get(key, default) for a text field
GetText(t, default) ==
    CASE t.k = "text" -> t.s
      [] t.k = "null" -> PyNone
      [] OTHER -> default

\* dict.update
Update(d, u) ==
    [f \in DOMAIN d \cup DOMAIN u |-> IF f \in DOMAIN u THEN u[f] ELSE d[f]]

(***************************************************************************)
(* Token records                                                           *)
(***************************************************************************)
\* main.py 76-87
SolanaDefaults ==
    [name |-> UnknownName, symbol |-> UnknownSymbol, price |-> 0,
     volume24h |-> 0, priceChange24h |-> 0, priceChange1h |-> 0,
     liquidity |-> 0, fdv |-> 0, marketCap |-> 0, success |-> FALSE]

\* main.py 177-187
EvmDefaults ==
    [name |-> UnknownName, symbol |-> UnknownSymbol, price |-> 0,
     volume24h |-> 0, priceChange24h |-> 0, priceChange1h |-> 0,
     liquidity |-> 0, marketCap |-> 0, success |-> FALSE]

\* main.py 167, 249: what the outer except returns
ErrorRecord == [success |-> FALSE, name |-> UnknownName, symbol |-> UnknownSymbol]

\* main.py 304
CallerDefault == [success |-> FALSE]

\* no record: outside a resolver call
NoRecord == [absent |-> TRUE]

(***************************************************************************)
(* DexScreener step (main.py 90-119, 190-218)                              *)
(***************************************************************************)
\* float(p.get('liquidity', {}).get('usd', 0) or 0) does not raise for pair p
LiquidityKeyOk(p) == CoerceOk(p.liquidity)

LiquidityKey(p) == Coerce(p.liquidity)

\* a selection that takes the first pair returned
MaxLiquidityIndexFirstPair(pairs) == 1

\* max(pairs, key=...): the first pair of maximal key
MaxLiquidityIndex(pairs) ==
    CHOOSE i \in 1..Len(pairs) :
        /\ \A j \in 1..Len(pairs) : LiquidityKey(pairs[j]) <= LiquidityKey(pairs[i])
        /\ \A j \in 1..(i - 1) : LiquidityKey(pairs[j]) < LiquidityKey(pairs[i])

\* the dict literal of token_data.update({...}) is built without raising
DexExtractOk(p, withFdv) ==
    /\ p.name.k # "noobj"
    /\ CoerceOk(p.priceUsd)
    /\ CoerceOk(p.volume)
    /\ CoerceOk(p.liquidity)
    /\ (withFdv => CoerceOk(p.fdv))
    /\ CoerceOk(p.marketCap)
    /\ CoerceOk(p.change24h)
    /\ CoerceOk(p.change1h)

DexExtract(p, withFdv) ==
    LET common ==
            [name |-> GetText(p.name, UnknownName),
             symbol |-> GetText(p.symbol, UnknownSymbol),
             price |-> Coerce(p.priceUsd),
             volume24h |-> Coerce(p.volume),
             liquidity |-> Coerce(p.liquidity),
             marketCap |-> Coerce(p.marketCap),
             priceChange24h |-> Coerce(p.change24h),
             priceChange1h |-> Coerce(p.change1h),
             success |-> TRUE]
    IN  IF withFdv THEN Update(common, [fdv |-> Coerce(p.fdv)]) ELSE common

\* `if pairs and len(pairs) > 0`
DexHasPairs(r) == r.st = "ok" /\ r.pk = "list" /\ Len(r.pairs) > 0

\* a step that assigns field by field, so that a raise half-way leaves the
\* name and the symbol of the selected pair behind
DexStepFieldByField(td, r, withFdv) ==
    IF ~DexHasPairs(r) THEN td
    ELSE IF \E i \in 1..Len(r.pairs) : ~LiquidityKeyOk(r.pairs[i]) THEN td
    ELSE LET p == r.pairs[MaxLiquidityIndex(r.pairs)]
         IN  IF DexExtractOk(p, withFdv) THEN Update(td, DexExtract(p, withFdv))
             ELSE Update(td, [name |-> GetText(p.name, UnknownName),
                              symbol |-> GetText(p.symbol, UnknownSymbol)])

\* the whole try block of the DexScreener step applied to record td
DexStep(td, r, withFdv) ==
    IF ~DexHasPairs(r) THEN td
    ELSE IF \E i \in 1..Len(r.pairs) : ~LiquidityKeyOk(r.pairs[i]) THEN td
    ELSE LET p == r.pairs[MaxLiquidityIndex(r.pairs)]
         IN  IF DexExtractOk(p, withFdv) THEN Update(td, DexExtract(p, withFdv))
             ELSE td

(***************************************************************************)
(* Jupiter step (main.py 122-140)                                          *)
(***************************************************************************)
\* `if price_data:` : an entry under the address that is a non-empty object
JupiterHasEntry(r) == r.st = "ok" /\ r.entry = "present"

\* a step that tests `price_data is not None`, taking an empty entry too
JupiterStepAnyEntry(td, r) ==
    IF r.st = "ok" /\ r.entry \in {"present", "empty"} /\ CoerceNoOrOk(r.price)
    THEN Update(td, [price |-> CoerceNoOr(r.price), success |-> TRUE])
    ELSE td

JupiterStep(td, r) ==
    IF JupiterHasEntry(r) /\ CoerceNoOrOk(r.price)
    THEN Update(td, [price |-> CoerceNoOr(r.price), success |-> TRUE])
    ELSE td

(***************************************************************************)
(* Solscan step (main.py 143-160)                                          *)
(***************************************************************************)
\* `if data and 'name' in data`
SolscanHasName(r) == r.st = "ok" /\ r.name.k # "missing"

\* a metadata step that also marks the token as found
SolscanStepSetsFound(td, r) ==
    IF r.st = "ok" /\ r.name.k # "missing"
    THEN [name |-> GetText(r.name, UnknownName),
          symbol |-> GetText(r.symbol, UnknownSymbol),
          success |-> TRUE] @@ td
    ELSE td

SolscanStep(td, r) ==
    IF SolscanHasName(r)
    THEN Update(td, [name |-> GetText(r.name, UnknownName),
                     symbol |-> GetText(r.symbol, UnknownSymbol)])
    ELSE td

(***************************************************************************)
(* CoinGecko step (main.py 221-242)                                        *)
(***************************************************************************)
\* data.get(address.lower()) is a non-empty object
GeckoHasEntry(r, address) ==
    r.st = "ok" /\ r.key = Lower(address) /\ r.entry = "present"

GeckoExtractOk(r) ==
    /\ CoerceNoOrOk(r.usd)
    /\ CoerceOk(r.change)
    /\ CoerceOk(r.vol)
    /\ CoerceOk(r.mcap)

GeckoStep(td, r, address) ==
    IF GeckoHasEntry(r, address) /\ GeckoExtractOk(r)
    THEN Update(td, [price |-> CoerceNoOr(r.usd),
                     priceChange24h |-> Coerce(r.change),
                     volume24h |-> Coerce(r.vol),
                     marketCap |-> Coerce(r.mcap),
                     success |-> TRUE])
    ELSE td


(***************************************************************************)
(* Inputs: message texts and upstream responses                            *)
(***************************************************************************)
\* longest list of pairs a DexScreener response carries in the model
MaxPairs == 2

Rep(c, n) == [i \in 1..n |-> c]

HexPrefix == <<"0", "x">>

\* 44 and 32 base58 characters
SolLong == Rep("A", 44)

SolShort == Rep("b", 32)

\* mixed-case hex with a zero in the middle: no base58 run of 32
EvmMixed == HexPrefix \o Rep("A", 20) \o Rep("0", 1) \o Rep("f", 19)

\* 40 hex characters none of which is 0
EvmNoZero == HexPrefix \o Rep("1", 40)

\* zeros first, then 32 hex letters
EvmTail == HexPrefix \o Rep("0", 8) \o Rep("c", 32)

\* all zeros
EvmZero == HexPrefix \o Rep("0", 40)

\* 40 hex characters, the only 0 after n of them: "x" and the n characters
\* before the 0 are a base58 run of n + 1, the 39 - n after it a run of 39 - n
EvmWithZeroAfter(n) == HexPrefix \o Rep("9", n) \o <<"0">> \o Rep("E", 39 - n)

UrlPlain == <<"h", "t", "t", "p", "s", ":", "/", "/", "t", ".", "c", "o", "/", "x">>

Messages ==
    { EvmMixed, EvmNoZero, EvmTail, EvmZero, SolLong,
      EvmWithZeroAfter(7), EvmWithZeroAfter(8),
      EvmWithZeroAfter(30), EvmWithZeroAfter(31),
      SolShort \o <<" ">> \o SolShort,
      UrlPlain \o <<" ">> \o EvmMixed \o <<" ">> \o SolLong,
      <<" ">> \o SolShort \o <<"\n">>,
      Rep("A", 45),
      Rep("z", 31),
      <<"h", "t", "t", "p", ":", "/", "/">> \o SolShort,
      <<"g", "m">> }

FailureStatuses == {"timeout", "neterror", "non200", "malformed"}

Failure(st) == [st |-> st]

PairCatalogue ==
    { [id |-> "low", name |-> Text("Low"), symbol |-> Text("LOW"),
       priceUsd |-> Str(1), volume |-> Num(10), liquidity |-> Num(100),
       fdv |-> Num(11), marketCap |-> Num(12), change24h |-> Num(-1),
       change1h |-> Num(1)],
      [id |-> "high", name |-> Text("High"), symbol |-> Text("HIGH"),
       priceUsd |-> Num(2), volume |-> Num(20), liquidity |-> Num(50000),
       fdv |-> Num(21), marketCap |-> Num(22), change24h |-> Num(-2),
       change1h |-> Num(2)],
      [id |-> "tie", name |-> Text("Tie"), symbol |-> Text("TIE"),
       priceUsd |-> Num(3), volume |-> Str(30), liquidity |-> Str(50000),
       fdv |-> Num(31), marketCap |-> Num(32), change24h |-> Num(-3),
       change1h |-> Num(3)],
      [id |-> "nulls", name |-> MissingText, symbol |-> NullText,
       priceUsd |-> Null, volume |-> Missing, liquidity |-> Null,
       fdv |-> Empty, marketCap |-> Missing, change24h |-> Null,
       change1h |-> Missing],
      [id |-> "badprice", name |-> Text("BadPrice"), symbol |-> Text("BP"),
       priceUsd |-> Bad, volume |-> Num(40), liquidity |-> Num(70000),
       fdv |-> Num(41), marketCap |-> Num(42), change24h |-> Num(-4),
       change1h |-> Num(4)],
      [id |-> "badliq", name |-> Text("BadLiq"), symbol |-> Text("BL"),
       priceUsd |-> Num(5), volume |-> Num(50), liquidity |-> Bad,
       fdv |-> Num(51), marketCap |-> Num(52), change24h |-> Num(-5),
       change1h |-> Num(5)],
      [id |-> "nullliq", name |-> Text("NullLiq"), symbol |-> Text("NL"),
       priceUsd |-> Num(6), volume |-> Num(60), liquidity |-> NoObj,
       fdv |-> Num(61), marketCap |-> Num(62), change24h |-> Num(-6),
       change1h |-> Num(6)] }

RECURSIVE SeqsUpTo(_, _)
SeqsUpTo(S, n) ==
    IF n = 0 THEN {<<>>}
    ELSE LET shorter == SeqsUpTo(S, n - 1)
         IN  shorter \cup {Append(q, e) : q \in shorter, e \in S}

DexResponses ==
    {Failure(st) : st \in FailureStatuses}
    \cup {[st |-> "ok", pk |-> pk, pairs |-> <<>>] : pk \in {"missing", "null"}}
    \cup {[st |-> "ok", pk |-> "list", pairs |-> ps] :
              ps \in SeqsUpTo(PairCatalogue, MaxPairs)}

JupiterResponses ==
    {Failure(st) : st \in FailureStatuses}
    \cup {[st |-> "ok", entry |-> e, price |-> Missing] : e \in {"absent", "empty"}}
    \cup {[st |-> "ok", entry |-> "present", price |-> pr] :
              pr \in {Num(5), Num(0), Str(7), Null, Missing, Bad, Empty}}

SolscanResponses ==
    {Failure(st) : st \in FailureStatuses}
    \cup {[st |-> "ok", name |-> n, symbol |-> sy] :
              n \in {MissingText, NullText, Text("Meta")},
              sy \in {MissingText, Text("MT")}}

GeckoRecords ==
    { [usd |-> Num(3), change |-> Num(-2), vol |-> Num(30), mcap |-> Num(300)],
      [usd |-> Str(4), change |-> Null, vol |-> Missing, mcap |-> Str(40)],
      [usd |-> Null, change |-> Num(-2), vol |-> Num(30), mcap |-> Num(300)],
      [usd |-> Missing, change |-> Num(2), vol |-> Num(31), mcap |-> Null],
      [usd |-> Num(3), change |-> Num(-2), vol |-> Bad, mcap |-> Num(300)],
      [usd |-> Bad, change |-> Num(-2), vol |-> Num(30), mcap |-> Num(300)] }

\* the price index answers with at most one record, under key `key`
GeckoResponses(address) ==
    {Failure(st) : st \in FailureStatuses}
    \cup {[st |-> "ok", key |-> <<>>, entry |-> "absent", usd |-> Missing,
           change |-> Missing, vol |-> Missing, mcap |-> Missing]}
    \cup {[st |-> "ok", key |-> key, entry |-> "empty", usd |-> Missing,
           change |-> Missing, vol |-> Missing, mcap |-> Missing] :
              key \in {address, Lower(address)}}
    \cup {[st |-> "ok", key |-> key, entry |-> "present", usd |-> g.usd,
           change |-> g.change, vol |-> g.vol, mcap |-> g.mcap] :
              key \in {address, Lower(address)}, g \in GeckoRecords}

\* no response: the source was not queried
NoResponse == [st |-> "none"]


(***************************************************************************)
(* on_message: the scan (main.py 275-282)                                  *)
(***************************************************************************)
\* the inner loop: every match of one pattern, tagged by detect_address_type
Tagged(matches) ==
    [i \in 1..Len(matches) |->
        [address |-> matches[i], addr_type |-> detect_address_type(matches[i])]]

\* q without the repetitions of its elements
RECURSIVE WithoutRepetitions(_)
WithoutRepetitions(q) ==
    IF q = <<>> THEN q
    ELSE LET front == WithoutRepetitions(SubSeq(q, 1, Len(q) - 1))
         IN  IF \E j \in 1..Len(front) : front[j] = q[Len(q)] THEN front
             ELSE Append(front, q[Len(q)])

\* a scan that reports each distinct match once
ScanMessageDeduplicated(text) ==
    WithoutRepetitions(
        Tagged(FindAll(PatternKeys[1], text))
        \o Tagged(FindAll(PatternKeys[2], text))
        \o Tagged(FindAll(PatternKeys[3], text)))

\* the outer loop over ADDRESS_PATTERNS.items(): solana, evm, url
ScanMessage(text) ==
    Tagged(FindAll(PatternKeys[1], text))
    \o Tagged(FindAll(PatternKeys[2], text))
    \o Tagged(FindAll(PatternKeys[3], text))

(***************************************************************************)
(* Trigger conditions of the fallback sources                              *)
(***************************************************************************)
\* main.py 122: if not token_data.get('success')
JupiterTrigger(td) == ~td.success

\* a metadata lookup made unconditionally
SolscanTriggerAlways(td) == TRUE

\* main.py 143: if token_data['name'] == 'Unknown Token'
SolscanTrigger(td) == td.name = UnknownName

\* main.py 221: if not token_data.get('success')
GeckoTrigger(td) == ~td.success

(***************************************************************************)
(* State                                                                   *)
(***************************************************************************)
VARIABLES
    fromSelf,     \* message.author == bot.user
    content,      \* message.content.strip()
    found,        \* on_message's list of (match, type)
    pc,           \* position in on_message / the resolver it awaits
    idx,          \* index in found of the address being processed
    channel,      \* messages the bot has posted, in order
    loading_msg,  \* on_message's loading_msg: 0 while unbound, else an index in channel
    returned,     \* on_message's token_data
    token_data,   \* the running resolver's token_data
    session,      \* the running resolver's aiohttp.ClientSession
    queried,      \* sources the running resolver has queried, in order
    outcome,      \* per source: the class of the response it gave
    last,         \* the last query: source, response, token_data before it
    processed,    \* the entries of found whose iteration has started
    commandsRun   \* bot.process_commands(message) was awaited

vars ==
    <<fromSelf, content, found, pc, idx, channel, loading_msg, returned,
      token_data, session, queried, outcome, last, processed, commandsRun>>

NoOutcome == [dex |-> "none", jupiter |-> "none", solscan |-> "none", gecko |-> "none"]

NoLast == [src |-> "none", resp |-> NoResponse, before |-> NoRecord]

\* what the upstream answered, whatever the resolver makes of it
DexClass(r) ==
    IF r.st # "ok" THEN r.st
    ELSE IF r.pk # "list" THEN "nodata"
    ELSE IF r.pairs = <<>> THEN "emptylist"
    ELSE "pairs"

JupiterClass(r) ==
    IF r.st # "ok" THEN r.st ELSE IF r.entry = "present" THEN "entry" ELSE "nodata"

SolscanClass(r) ==
    IF r.st # "ok" THEN r.st ELSE IF r.name.k # "missing" THEN "name" ELSE "nodata"

GeckoClass(r, address) ==
    IF r.st # "ok" THEN r.st
    ELSE IF r.key # Lower(address) \/ r.entry = "absent" THEN "nodata"
    ELSE IF r.entry = "empty" THEN "emptyrecord"
    ELSE "entry"

Address == found[idx].address

AddrType == found[idx].addr_type

Init ==
    /\ fromSelf \in BOOLEAN
    /\ content \in {Strip(m) : m \in Messages}
    /\ found = <<>>
    /\ pc = "start"
    /\ idx = 0
    /\ channel = <<>>
    /\ loading_msg = 0
    /\ returned = NoRecord
    /\ token_data = NoRecord
    /\ session = "none"
    /\ queried = <<>>
    /\ outcome = NoOutcome
    /\ last = NoLast
    /\ processed = <<>>
    /\ commandsRun = FALSE

resolverVars == <<token_data, session, queried, outcome, last>>

chatVars == <<channel, loading_msg, processed, commandsRun>>

messageVars == <<fromSelf, content, found, idx>>

(***************************************************************************)
(* on_message (main.py 270-519)                                            *)
(***************************************************************************)
\* after an iteration of `for address, addr_type in found`
NextIteration(i) == IF i < Len(found) THEN "send" ELSE "commands"

\* main.py 272-285: the author check, the scan, `if found`
Scan ==
    /\ pc = "start"
    /\ IF fromSelf
       THEN /\ pc' = "done"
            /\ UNCHANGED <<found, idx>>
       ELSE /\ found' = ScanMessage(content)
            /\ idx' = IF found' # <<>> THEN 1 ELSE 0
            /\ pc' = IF found' # <<>> THEN "send" ELSE "commands"
    /\ UNCHANGED <<fromSelf, content, returned>>
    /\ UNCHANGED resolverVars
    /\ UNCHANGED chatVars

\* a dispatch that resolves everything but EVM addresses as Solana
DispatchSolanaByDefault(t) ==
    IF t = TypeEvm THEN "evm_open" ELSE "sol_open"

\* where line 306-309 goes for the address type
Dispatch(t) ==
    IF t = TypeSolana THEN "sol_open"
    ELSE IF t = TypeEvm THEN "evm_open"
    ELSE "compose"

\* main.py 287-309: the loading message is sent, token_data is reset, the
\* resolver of the address type is called
SendLoading ==
    /\ pc = "send"
    /\ processed' = Append(processed, found[idx])
    /\ \/ /\ channel' = Append(channel, [kind |-> "loading", for |-> idx])
          /\ loading_msg' = Len(channel) + 1
          /\ returned' = CallerDefault
          /\ pc' = Dispatch(AddrType)
       \/ /\ pc' = "except"
          /\ UNCHANGED <<channel, loading_msg, returned>>
    /\ token_data' = NoRecord
    /\ session' = "none"
    /\ queried' = <<>>
    /\ outcome' = NoOutcome
    /\ last' = NoLast
    /\ UNCHANGED <<commandsRun>>
    /\ UNCHANGED messageVars

\* main.py 312-510: the embed is composed and the loading message edited
ComposeAndEdit ==
    /\ pc = "compose"
    /\ \/ /\ channel' = [channel EXCEPT ![loading_msg] =
                            [kind |-> "embed", for |-> idx]]
          /\ pc' = NextIteration(idx)
          /\ idx' = IF idx < Len(found) THEN idx + 1 ELSE idx
       \/ /\ pc' = "except"
          /\ UNCHANGED <<channel, idx>>
    /\ UNCHANGED <<fromSelf, content, found, loading_msg, returned, processed,
                   commandsRun>>
    /\ UNCHANGED resolverVars

\* main.py 512-515: the error text is written to loading_msg
ExceptEdit ==
    /\ pc = "except"
    /\ \/ /\ loading_msg # 0
          /\ channel' = [channel EXCEPT ![loading_msg] =
                            [kind |-> "error", for |-> idx]]
          /\ pc' = NextIteration(idx)
          /\ idx' = IF idx < Len(found) THEN idx + 1 ELSE idx
       \/ /\ pc' = "except_send"
          /\ UNCHANGED <<channel, idx>>
    /\ UNCHANGED <<fromSelf, content, found, loading_msg, returned, processed,
                   commandsRun>>
    /\ UNCHANGED resolverVars

\* main.py 516-517: the bare except sends a new message; its failure leaves
\* on_message
ExceptSend ==
    /\ pc = "except_send"
    /\ \/ /\ channel' = Append(channel, [kind |-> "error", for |-> idx])
          /\ pc' = NextIteration(idx)
          /\ idx' = IF idx < Len(found) THEN idx + 1 ELSE idx
       \/ /\ pc' = "raised"
          /\ UNCHANGED <<channel, idx>>
    /\ UNCHANGED <<fromSelf, content, found, loading_msg, returned, processed,
                   commandsRun>>
    /\ UNCHANGED resolverVars

\* main.py 519
ProcessCommands ==
    /\ pc = "commands"
    /\ commandsRun' = TRUE
    /\ pc' = "done"
    /\ UNCHANGED <<channel, loading_msg, processed, returned>>
    /\ UNCHANGED messageVars
    /\ UNCHANGED resolverVars


(***************************************************************************)
(* The resolvers (main.py 69-167, 170-249)                                 *)
(***************************************************************************)
\* `async with aiohttp.ClientSession(...) as session:` is entered and
\* token_data is created; a failure goes to the outer except
OpenSession(defaults, first) ==
    \/ /\ session' = "open"
       /\ token_data' = defaults
       /\ pc' = first
       /\ UNCHANGED returned
    \/ /\ session' = "open_failed"
       /\ returned' = ErrorRecord
       /\ pc' = "compose"
       /\ UNCHANGED token_data

\* `return token_data` leaves the `async with`; a failure of the session's
\* exit goes to the outer except
CloseSession ==
    /\ \/ /\ session' = "closed"
          /\ returned' = token_data
       \/ /\ session' = "close_failed"
          /\ returned' = ErrorRecord
    /\ token_data' = NoRecord
    /\ pc' = "compose"

\* one source is queried: response r of class cls turns token_data into td
Query(src, r, cls, td) ==
    /\ token_data' = td
    /\ queried' = Append(queried, src)
    /\ outcome' = [outcome EXCEPT ![src] = cls]
    /\ last' = [src |-> src, resp |-> r, before |-> token_data]

onMessageVars ==
    <<fromSelf, content, found, idx, channel, loading_msg, processed, commandsRun>>

\* main.py 73-87
SolOpen ==
    /\ pc = "sol_open"
    /\ OpenSession(SolanaDefaults, "sol_dex")
    /\ UNCHANGED <<queried, outcome, last>>
    /\ UNCHANGED onMessageVars

\* main.py 89-122
SolDex ==
    /\ pc = "sol_dex"
    /\ \E r \in DexResponses :
          Query("dex", r, DexClass(r), DexStep(token_data, r, TRUE))
    /\ pc' = IF JupiterTrigger(token_data') THEN "sol_jupiter"
             ELSE IF SolscanTrigger(token_data') THEN "sol_solscan"
             ELSE "sol_close"
    /\ UNCHANGED <<session, returned>>
    /\ UNCHANGED onMessageVars

\* main.py 123-143
SolJupiter ==
    /\ pc = "sol_jupiter"
    /\ \E r \in JupiterResponses :
          Query("jupiter", r, JupiterClass(r), JupiterStep(token_data, r))
    /\ pc' = IF SolscanTrigger(token_data') THEN "sol_solscan" ELSE "sol_close"
    /\ UNCHANGED <<session, returned>>
    /\ UNCHANGED onMessageVars

\* main.py 144-160
SolSolscan ==
    /\ pc = "sol_solscan"
    /\ \E r \in SolscanResponses :
          Query("solscan", r, SolscanClass(r), SolscanStep(token_data, r))
    /\ pc' = "sol_close"
    /\ UNCHANGED <<session, returned>>
    /\ UNCHANGED onMessageVars

\* main.py 162-167
SolClose ==
    /\ pc = "sol_close"
    /\ CloseSession
    /\ UNCHANGED <<queried, outcome, last>>
    /\ UNCHANGED onMessageVars

\* main.py 174-187
EvmOpen ==
    /\ pc = "evm_open"
    /\ OpenSession(EvmDefaults, "evm_dex")
    /\ UNCHANGED <<queried, outcome, last>>
    /\ UNCHANGED onMessageVars

\* main.py 189-221
EvmDex ==
    /\ pc = "evm_dex"
    /\ \E r \in DexResponses :
          Query("dex", r, DexClass(r), DexStep(token_data, r, FALSE))
    /\ pc' = IF GeckoTrigger(token_data') THEN "evm_gecko" ELSE "evm_close"
    /\ UNCHANGED <<session, returned>>
    /\ UNCHANGED onMessageVars

\* main.py 222-242
EvmGecko ==
    /\ pc = "evm_gecko"
    /\ \E r \in GeckoResponses(Address) :
          Query("gecko", r, GeckoClass(r, Address), GeckoStep(token_data, r, Address))
    /\ pc' = "evm_close"
    /\ UNCHANGED <<session, returned>>
    /\ UNCHANGED onMessageVars

\* main.py 244-249
EvmClose ==
    /\ pc = "evm_close"
    /\ CloseSession
    /\ UNCHANGED <<queried, outcome, last>>
    /\ UNCHANGED onMessageVars

Next ==
    \/ Scan
    \/ SendLoading
    \/ SolOpen
    \/ SolDex
    \/ SolJupiter
    \/ SolSolscan
    \/ SolClose
    \/ EvmOpen
    \/ EvmDex
    \/ EvmGecko
    \/ EvmClose
    \/ ComposeAndEdit
    \/ ExceptEdit
    \/ ExceptSend
    \/ ProcessCommands

Spec == Init /\ [][Next]_vars

(***************************************************************************)
(* Claims                                                                  *)
(***************************************************************************)
\* the resolver of the current address has just returned to on_message
ResolverReturned ==
    pc = "compose" /\ session \in {"closed", "open_failed", "close_failed"}

\* it returned through `return token_data`, the session closing normally
ReturnedNormally == pc = "compose" /\ session = "closed"

\* the resolver is between two awaits, its token_data alive
ResolverRunning == session = "open"

\* the numeric fields of the record of chain type t
NumericFields(t) ==
    {"price", "volume24h", "liquidity", "marketCap", "priceChange1h", "priceChange24h"}
    \cup (IF t = TypeSolana THEN {"fdv"} ELSE {})

\* responses by which a source yields nothing
NothingClasses == FailureStatuses \cup {"nodata", "emptylist"}

\* C1 (as claimed): whatever the upstream outcomes, failure to open or close
\* the HTTP session included, the record a resolver returns has a boolean
\* 'success' and every numeric field of its chain present.
C1_ReturnsFullRecord ==
    ResolverReturned =>
        /\ "success" \in DOMAIN returned
        /\ returned.success \in BOOLEAN
        /\ NumericFields(AddrType) \subseteq DOMAIN returned

\* C2 (as claimed): in Solana resolution Jupiter and Solscan are each queried
\* only when the record was not yet marked found at the time of the query.
C2_LaterSourceOnlyWithoutSuccess ==
    (last.src \in {"jupiter", "solscan"}) => ~last.before.success

\* C2 (amended): Jupiter is queried only when the DexScreener step left
\* found=false (and directly after it); Solscan is queried only when the name
\* is still 'Unknown Token' at that point, whether or not found is set.
C2_SourcesFollowTheirTriggers ==
    /\ (last.src = "jupiter") =>
          /\ ~last.before.success
          /\ queried = <<"dex", "jupiter">>
    /\ (last.src = "solscan") =>
          /\ last.before.name = UnknownName
          /\ queried \in {<<"dex", "solscan">>, <<"dex", "jupiter", "solscan">>}

\* Solscan is queried although Jupiter has just established success
C2_Witness ==
    /\ last.src = "solscan"
    /\ last.before.success
    /\ queried = <<"dex", "jupiter", "solscan">>

\* C3: a Solana address whose DexScreener response has an empty pairs list is
\* next looked up at Jupiter; if Jupiter yields nothing too, at Solscan; the
\* Solscan step never changes found; the record returned then has
\* found=false, all numeric fields zero, and name/symbol from the metadata
\* when it carries a name, the defaults otherwise.
C3_EmptyPairsFallThrough ==
    (idx > 0 /\ outcome.dex = "emptylist" /\ AddrType = TypeSolana) =>
        /\ (last.src = "dex" /\ ResolverRunning) => pc = "sol_jupiter"
        /\ (last.src = "jupiter" /\ ResolverRunning
               /\ outcome.jupiter \in NothingClasses) =>
              pc = "sol_solscan"
        /\ (last.src = "solscan" /\ ResolverRunning) =>
              token_data.success = last.before.success
        /\ (ReturnedNormally /\ outcome.jupiter \in NothingClasses) =>
              /\ queried = <<"dex", "jupiter", "solscan">>
              /\ returned.success = FALSE
              /\ \A f \in NumericFields(TypeSolana) : returned[f] = 0
              /\ LET meta == last.resp
                     named == meta.st = "ok" /\ meta.name.k # "missing"
                 IN  /\ (named /\ meta.name.k = "text") => returned.name = meta.name.s
                     /\ (named /\ meta.symbol.k = "text") =>
                            returned.symbol = meta.symbol.s
                     /\ (named /\ meta.symbol.k = "missing") =>
                            returned.symbol = UnknownSymbol
                     /\ ~named =>
                            /\ returned.name = UnknownName
                            /\ returned.symbol = UnknownSymbol

\* empty pairs, nothing from Jupiter, a name from Solscan, returned
C3_Witness ==
    /\ idx > 0
    /\ AddrType = TypeSolana
    /\ outcome.dex = "emptylist"
    /\ outcome.jupiter = "nodata"
    /\ outcome.solscan = "name"
    /\ ReturnedNormally
    /\ returned.name = "Meta"
    /\ returned.symbol = "MT"

\* the value a numeric JSON field stands for, zero when it holds none
Zeroed(j) == IF j.k \in {"num", "str"} THEN j.v ELSE 0

\* a numeric JSON field that is a number, a numeric string, null, absent or ""
Readable(j) == j.k \in {"num", "str", "null", "missing", "empty"}

\* a numeric JSON field that is null, absent or a string that is no number
Unusable(j) == j.k \in {"null", "missing", "bad", "empty"}

\* the numeric fields read from a pair for chain type t
PairNumericFields(t) ==
    {"priceUsd", "volume", "liquidity", "marketCap", "change24h", "change1h"}
    \cup (IF t = TypeSolana THEN {"fdv"} ELSE {})

\* the record field a pair field goes to
PairTarget(f) ==
    CASE f = "priceUsd" -> "price"
      [] f = "volume" -> "volume24h"
      [] f = "liquidity" -> "liquidity"
      [] f = "marketCap" -> "marketCap"
      [] f = "change24h" -> "priceChange24h"
      [] f = "change1h" -> "priceChange1h"
      [] f = "fdv" -> "fdv"

\* every extracted field of record td is pair p's
FromPair(td, p, t) ==
    /\ td.name = (IF p.name.k = "text" THEN p.name.s
                  ELSE IF p.name.k = "null" THEN PyNone ELSE UnknownName)
    /\ td.symbol = (IF p.symbol.k = "text" THEN p.symbol.s
                    ELSE IF p.symbol.k = "null" THEN PyNone ELSE UnknownSymbol)
    /\ \A f \in PairNumericFields(t) : td[PairTarget(f)] = Zeroed(p[f])

\* pair k has the maximal liquidity and is the first that has it
FirstOfMaxLiquidity(pairs, k) ==
    /\ \A j \in 1..Len(pairs) : Zeroed(pairs[j].liquidity) <= Zeroed(pairs[k].liquidity)
    /\ \A j \in 1..(k - 1) : Zeroed(pairs[j].liquidity) < Zeroed(pairs[k].liquidity)

NextSource(src, t) ==
    CASE src = "dex" /\ t = TypeSolana -> "sol_jupiter"
      [] src = "dex" /\ t = TypeEvm -> "evm_gecko"
      [] src = "jupiter" -> "sol_solscan"
      [] src = "solscan" -> "sol_close"
      [] src = "gecko" -> "evm_close"

\* a 200 response whose payload holds a value the step cannot read
UnreadablePayload(src, r, t, address) ==
    CASE src = "dex" ->
            /\ DexHasPairs(r)
            /\ \/ \E i \in 1..Len(r.pairs) : r.pairs[i].liquidity.k \in {"bad", "noobj"}
               \/ \A i \in 1..Len(r.pairs) :
                     \E f \in PairNumericFields(t) : r.pairs[i][f].k = "bad"
      [] src = "jupiter" ->
            r.st = "ok" /\ r.entry = "present" /\ r.price.k = "bad"
      [] src = "gecko" ->
            /\ r.st = "ok" /\ r.key = Lower(address) /\ r.entry = "present"
            /\ \E f \in {"usd", "change", "vol", "mcap"} : r[f].k = "bad"
      [] OTHER -> FALSE

\* C5: a timeout, network error, non-200 response or malformed payload of one
\* source leaves the record exactly as it was before the query, stays inside
\* the resolver, and the next source of the chain is attempted.
C5_FailedSourceLeavesRecord ==
    (last.src # "none" /\ ResolverRunning) =>
        ((last.resp.st \in FailureStatuses
             \/ UnreadablePayload(last.src, last.resp, AddrType, Address)) =>
            /\ token_data = last.before
            /\ pc = NextSource(last.src, AddrType))

\* Jupiter timed out after DexScreener gave nothing: Solscan is next
C5_Witness ==
    /\ last.src = "jupiter"
    /\ last.resp.st = "timeout"
    /\ ResolverRunning
    /\ token_data = SolanaDefaults
    /\ pc = "sol_solscan"

\* C6 (as claimed): a numeric field that is null, missing or an unparseable
\* string becomes zero in the record, the other fields of the response are
\* taken and the source counts as having responded, for every source.
C6_UnusableFieldBecomesZero ==
    (last.src # "none" /\ ResolverRunning) =>
        /\ (last.src = "jupiter" /\ last.resp.st = "ok" /\ last.resp.entry = "present"
               /\ Unusable(last.resp.price)) =>
              (token_data.success /\ token_data.price = 0)
        /\ (last.src = "gecko" /\ last.resp.st = "ok" /\ last.resp.entry = "present"
               /\ last.resp.key = Lower(Address)) =>
              /\ token_data.success
              /\ token_data.price = Zeroed(last.resp.usd)
              /\ token_data.priceChange24h = Zeroed(last.resp.change)
              /\ token_data.volume24h = Zeroed(last.resp.vol)
              /\ token_data.marketCap = Zeroed(last.resp.mcap)
        /\ (last.src = "dex" /\ DexHasPairs(last.resp) /\ Len(last.resp.pairs) = 1
               /\ last.resp.pairs[1].name.k # "noobj"
               /\ \A f \in PairNumericFields(AddrType) :
                     last.resp.pairs[1][f].k # "noobj") =>
              /\ token_data.success
              /\ FromPair(token_data, last.resp.pairs[1], AddrType)

\* C7: when every source consulted for an address yields nothing, the
\* resolver returns found=false, name 'Unknown Token', symbol 'UNKNOWN' and
\* every numeric field zero.
C7_AllSourcesNothingGivesDefaults ==
    ReturnedNormally =>
        /\ (/\ AddrType = TypeSolana
            /\ outcome.dex \in NothingClasses
            /\ outcome.jupiter \in NothingClasses
            /\ outcome.solscan \in NothingClasses) =>
              /\ queried = <<"dex", "jupiter", "solscan">>
              /\ returned = SolanaDefaults
        /\ (/\ AddrType = TypeEvm
            /\ outcome.dex \in NothingClasses
            /\ outcome.gecko \in NothingClasses \cup {"emptyrecord"}) =>
              /\ queried = <<"dex", "gecko">>
              /\ returned = EvmDefaults

\* an EVM address absent from DexScreener and from CoinGecko, returned
C7_Witness ==
    /\ idx > 0
    /\ AddrType = TypeEvm
    /\ ReturnedNormally
    /\ outcome.dex = "nodata"
    /\ outcome.gecko = "nodata"
    /\ returned.name = UnknownName
    /\ returned.symbol = UnknownSymbol
    /\ ~returned.success

\* C8 (as claimed): in EVM resolution CoinGecko is queried exactly when the
\* DexScreener step did not set found; found is set exactly when the response
\* holds a record under the lower-cased address, and then price, 24h change,
\* 24h volume and market cap are that record's while name, symbol and
\* liquidity keep their defaults.
C8_PriceIndexSetsFoundIffRecord ==
    (idx > 0 /\ AddrType = TypeEvm /\ ResolverRunning) =>
        /\ (last.src = "dex") => (pc = "evm_gecko" <=> ~token_data.success)
        /\ (last.src = "gecko") =>
              LET r == last.resp
                  hasRecord ==
                      r.st = "ok" /\ r.key = Lower(Address) /\ r.entry = "present"
              IN  /\ token_data.success <=> hasRecord
                  /\ hasRecord =>
                        /\ token_data.price = Zeroed(r.usd)
                        /\ token_data.priceChange24h = Zeroed(r.change)
                        /\ token_data.volume24h = Zeroed(r.vol)
                        /\ token_data.marketCap = Zeroed(r.mcap)
                  /\ token_data.name = UnknownName
                  /\ token_data.symbol = UnknownSymbol
                  /\ token_data.liquidity = 0

\* C9 (as claimed): a message that is exactly 0x followed by 40 hex
\* characters yields one match, the whole text, tagged EVM; none tagged
\* Solana or URL.
C9_HexAddressIsEvmOnly ==
    (pc # "start" /\ ~fromSelf /\ FullMatch("evm", content)) =>
        /\ found = <<[address |-> content, addr_type |-> TypeEvm]>>
        /\ \A i \in 1..Len(found) : found[i].addr_type \notin {TypeSolana, TypeUrl}

\* C10: the matches of a message are listed by pattern (all Solana matches,
\* then all EVM, then all URL) with nothing removed, they are processed one
\* at a time in that order, and every resolution starts from a fresh record,
\* also when the address occurred earlier in the same message.  (The list is
\* compared when the scan has ended; the loop only reads it.)
C10_ResolutionsInClassifierOrder ==
    /\ (pc # "start" /\ ~fromSelf /\ processed = <<>>) =>
          [i \in 1..Len(found) |-> found[i].address]
              = FindAll("solana", content) \o FindAll("evm", content)
                    \o FindAll("url", content)
    /\ Len(processed) <= Len(found)
    /\ processed = SubSeq(found, 1, Len(processed))
    /\ Len(processed) = (IF pc = "send" THEN idx - 1 ELSE idx)
    /\ (pc = "done" /\ ~fromSelf) => processed = found
    /\ ResolverRunning => AddrType \in {TypeSolana, TypeEvm}
    /\ (ResolverRunning /\ queried = <<>>) =>
          token_data = (IF AddrType = TypeSolana THEN SolanaDefaults ELSE EvmDefaults)

\* the same address a second time: its resolution starts afresh after the
\* first one's reply was posted
C10_Witness ==
    /\ idx = 2
    /\ found[1] = found[2]
    /\ AddrType = TypeSolana
    /\ channel[1].kind = "embed"
    /\ ResolverRunning
    /\ queried = <<>>
    /\ token_data = SolanaDefaults

\* the iteration on_message has last completed: the one before idx while the
\* next is about to start, else idx
LastCompleted == IF pc = "send" THEN idx - 1 ELSE idx

\* C11 (as claimed): an error raised while one address is processed never
\* leaves on_message: the iteration that caught it ends with a message for
\* its address in the channel, the remaining addresses are processed, and
\* process_commands runs when the loop is over.
C11_ErrorNeverAbortsOnMessage ==
    /\ pc # "raised"
    /\ (pc \in {"send", "commands", "done"} /\ LastCompleted > 0) =>
          \E i \in DOMAIN channel : channel[i].for = LastCompleted
    /\ (pc \in {"commands", "done"} /\ ~fromSelf) => processed = found
    /\ (pc = "done" /\ ~fromSelf) => commandsRun

\* the orders in which each resolver can have queried its sources so far
SolanaOrders ==
    {<<>>, <<"dex">>, <<"dex", "jupiter">>, <<"dex", "solscan">>,
     <<"dex", "jupiter", "solscan">>}

EvmOrders == {<<>>, <<"dex">>, <<"dex", "gecko">>}

SolanaSteps == {"sol_open", "sol_dex", "sol_jupiter", "sol_solscan", "sol_close"}

EvmSteps == {"evm_open", "evm_dex", "evm_gecko", "evm_close"}

\* C12: the chain type of the address being processed fixes the sources and
\* their order: for a Solana address DexScreener, then Jupiter, then Solscan
\* (three queries at most) and only the Solana resolver runs; for an EVM
\* address DexScreener, then CoinGecko (two at most) and only the EVM
\* resolver runs; for a URL or Unknown entry no resolver runs, no session is
\* opened and nothing is queried.
C12_ChainKindDeterminesSources ==
    (pc \notin {"start", "send"} /\ idx > 0) =>
        /\ AddrType = TypeSolana =>
              /\ queried \in SolanaOrders
              /\ pc \notin EvmSteps
        /\ AddrType = TypeEvm =>
              /\ queried \in EvmOrders
              /\ pc \notin SolanaSteps
        /\ AddrType \in {TypeUrl, TypeUnknown} =>
              /\ queried = <<>>
              /\ session = "none"
              /\ pc \notin SolanaSteps \cup EvmSteps

\* an EVM address resolved through both of its sources right after a Solana
\* address of the same message, a URL still to come
C12_Witness ==
    /\ idx = 2
    /\ Len(found) = 3
    /\ found[1].addr_type = TypeSolana
    /\ AddrType = TypeEvm
    /\ found[3].addr_type = TypeUrl
    /\ ReturnedNormally
    /\ queried = <<"dex", "gecko">>

\* a URL entry composed without any query
C12_UrlWitness ==
    /\ idx > 0
    /\ pc = "compose"
    /\ AddrType = TypeUrl
    /\ channel[loading_msg] = [kind |-> "loading", for |-> idx]
    /\ queried = <<>>

\* the chain type that goes with each key of ADDRESS_PATTERNS
TypeOfPattern(key) ==
    IF key = "solana" THEN TypeSolana
    ELSE IF key = "evm" THEN TypeEvm
    ELSE TypeUrl

\* the matches of one pattern, each tagged with the type of that pattern
TaggedAs(key, text) ==
    LET matches == FindAll(key, text)
    IN  [i \in 1..Len(matches) |->
            [address |-> matches[i], addr_type |-> TypeOfPattern(key)]]

\* C13: every entry the scan puts in found carries the chain type of the
\* pattern whose findall returned it (Solana, EVM (Ethereum/BSC), URL), and
\* no entry is tagged Unknown.  (The list is compared when the scan has
\* ended; the loop only reads it.)
C13_EntriesTaggedByTheirPattern ==
    /\ (pc # "start" /\ ~fromSelf /\ processed = <<>>) =>
          found = TaggedAs("solana", content) \o TaggedAs("evm", content)
                      \o TaggedAs("url", content)
    /\ \A i \in 1..Len(found) : found[i].addr_type # TypeUnknown

\* a scan that returned matches of all three patterns
C13_Witness ==
    /\ pc = "send"
    /\ processed = <<>>
    /\ FindAll("solana", content) # <<>>
    /\ FindAll("evm", content) # <<>>
    /\ FindAll("url", content) # <<>>
    /\ {found[i].addr_type : i \in 1..Len(found)} = {TypeSolana, TypeEvm, TypeUrl}

\* C14 (as claimed): a message the bot has posted stays with the address it
\* was posted for, whatever succeeds or fails later in the same on_message
\* run (no outcome is written over the reply of an earlier address), and a
\* source is queried only while the loading message of the current address
\* stands in the channel.
C14_OutcomeWrittenToOwnLoadingMessage ==
    [][ /\ \A i \in DOMAIN channel : channel'[i].for = channel[i].for
        /\ queried' # queried /\ queried' # <<>> =>
              /\ loading_msg # 0
              /\ channel[loading_msg] = [kind |-> "loading", for |-> idx]
      ]_vars

=============================================================================
